---- MODULE Spec2Model ----
(***************************************************************************)
(* Model of the bareboot initial-metadata tooling:                         *)
(*   generate_platform_config.py : platform description -> layout config   *)
(*   initial_metadata.py         : bootloader + images + key -> binary      *)
(* Files are byte sequences (values 0..255); file offsets are 0-based, the  *)
(* byte at offset o of file f is f[o + 1].                                  *)
(***************************************************************************)
EXTENDS Integers, Sequences, FiniteSets, TLC

VARIABLES
    platform,         \* the platform description (yaml document), read-only
    config,           \* the layout config dict, built key by key, then saved/loaded
    inputs,           \* the build's files: bootloader, images, key, old output
    global_metadata,  \* GlobalImageMetadata: hmac_key_file, images
    out,              \* content of the output file
    pc,               \* position in the two scripts
    index,            \* loop index of the running for-loop
    err,              \* the exception that ended the run ("" when none)
    log               \* the writes made to the output file, in order

vars == <<platform, config, inputs, global_metadata, out, pc, index, err, log>>

\* ------------------------------------------------------------------ bounds

MaxSlots == 2
MaxImages == 2

\* SHA-256 digest width in bytes (hashlib.sha256)
DigestSize == 32

\* ------------------------------------------------------------ small helpers

Max(a, b) == IF a >= b THEN a ELSE b

\* ------------------------------------------- generate_platform_config.py

\* A template entry: an int literal (ref = "") or the name of a platform field.
Lit(key, n) == [key |-> key, width |-> n, ref |-> ""]
Ref(key, field) == [key |-> key, width |-> 0, ref |-> field]

IMAGE_METADATA_SIZES_TEMPLATE ==
    << Lit("version", 4),
       Lit("crc", 4),
       Lit("bootcounter", 4),
       Lit("lastSuccessStatus", 4),
       Ref("imageBegin", "pointer_size"),
       Lit("length", 4),
       Lit("completionStatus", 2),
       Lit("protectionStatus", 2),
       Ref("hmacSignature", "hmac_signature_size") >>

GLOBAL_METADATA_SIZE_TEMPLATE ==
    << Lit("globalBootCounter", 4),
       Ref("prefferedImage", "size_t_size"),
       Ref("currentImage", "size_t_size"),
       Ref("hmacKey1", "hmac_key_size"),
       Ref("hmacKey2", "hmac_key_size"),
       Ref("hmacKey3", "hmac_key_size"),
       Lit("imageMetadata", 0) >>

\* isinstance(value, int) ? value : platform[value], entry by entry, order kept
ResolveSizes(template, p) ==
    [i \in DOMAIN template |->
        [key |-> template[i].key,
         value |-> IF template[i].ref = "" THEN template[i].width
                   ELSE p[template[i].ref]]]

RECURSIVE SumValues(_)
SumValues(sizes) ==
    IF sizes = <<>> THEN 0 ELSE sizes[1].value + SumValues(Tail(sizes))

generate_size_of_metadata(p) == ResolveSizes(IMAGE_METADATA_SIZES_TEMPLATE, p)

\* the sum leaves the last field out
SizeOfMetadataMissingField(p) ==
    SumValues(SubSeq(generate_size_of_metadata(p), 1,
                     Len(generate_size_of_metadata(p)) - 1))

size_of_metadata(p) == SumValues(generate_size_of_metadata(p))

generate_global_metadata_sizes(p) == ResolveSizes(GLOBAL_METADATA_SIZE_TEMPLATE, p)

\* slots counted from offset 0, the bootloader's place
ImageBeginAddressWithoutBootloader(p, i) == i * p.max_image_size

\* slots counted from 1
ImageBeginAddressOffByOne(p, i) == p.bootloader_size + (i + 1) * p.max_image_size

\* the address appended in iteration i of the loop
ImageBeginAddress(p, i) == p.bootloader_size + i * p.max_image_size

\* for i in range(0, number_of_images): append(...)
RECURSIVE AppendAddresses(_, _, _)
AppendAddresses(p, i, acc) ==
    IF i >= p.number_of_images THEN acc
    ELSE AppendAddresses(p, i + 1, Append(acc, ImageBeginAddress(p, i)))

generate_image_begin_addresses(p) == AppendAddresses(p, 0, <<>>)

\* one of the two for-loops of get_offset_of: walks sizes from position i with
\* the running offset; found = the loop returned
RECURSIVE WalkSizes(_, _, _, _)
WalkSizes(sizes, i, prop, offset) ==
    IF i > Len(sizes) THEN [found |-> FALSE, offset |-> offset]
    ELSE IF sizes[i].key = prop THEN [found |-> TRUE, offset |-> offset]
    ELSE WalkSizes(sizes, i + 1, prop, offset + sizes[i].value)

\* the second loop restarts at the label instead of continuing the offset
GetOffsetRestartsAtLabel(prop, p, metadata_sizes, global_metadata_sizes) ==
    LET g == WalkSizes(global_metadata_sizes, 1, prop, p.metadata_label_address)
        m == WalkSizes(metadata_sizes, 1, prop, p.metadata_label_address)
    IN  IF g.found THEN g.offset
        ELSE IF m.found THEN m.offset
        ELSE 0

get_offset_of(prop, p, metadata_sizes, global_metadata_sizes) ==
    LET g == WalkSizes(global_metadata_sizes, 1, prop, p.metadata_label_address)
        m == WalkSizes(metadata_sizes, 1, prop, g.offset)
    IN  IF g.found THEN g.offset
        ELSE IF m.found THEN m.offset
        ELSE 0

OffsetOf(prop, p) ==
    get_offset_of(prop, p, generate_size_of_metadata(p),
                  generate_global_metadata_sizes(p))

generate_offsets(p) ==
    [hmac_key_offset |-> OffsetOf("hmacKey1", p),
     first_image_metadata_offset |-> OffsetOf("imageMetadata", p),
     first_crc_offset |-> OffsetOf("crc", p),
     first_length_offset |-> OffsetOf("length", p),
     first_completion_status_offset |-> OffsetOf("completionStatus", p),
     first_hmac_offset |-> OffsetOf("hmacSignature", p)]

\* dict update: d with the keys of e set
Update(d, e) == e @@ d

\* ------------------------------------------------------ initial_metadata.py

\* int.to_bytes(width, "little"): least significant byte first
RECURSIVE LittleEndian(_, _)
LittleEndian(n, width) ==
    IF width = 0 THEN <<>>
    ELSE <<n % 256>> \o LittleEndian(n \div 256, width - 1)

Reverse(s) == [i \in 1..Len(s) |-> s[Len(s) + 1 - i]]

\* n.to_bytes(width, byteorder)
to_bytes(n, width, byteorder) ==
    IF byteorder = "little" THEN LittleEndian(n, width)
    ELSE Reverse(LittleEndian(n, width))

\* A 32-bit unsigned value is kept as two 16-bit halves (TLC's integers
\* are 32-bit signed, too narrow for it as one number).
U32(n) == [hi |-> n \div 65536, lo |-> n % 65536]

\* v.to_bytes(4, byteorder) for a 32-bit value
u32_to_bytes(v, byteorder) ==
    IF byteorder = "little"
    THEN to_bytes(v.lo, 2, byteorder) \o to_bytes(v.hi, 2, byteorder)
    ELSE to_bytes(v.hi, 2, byteorder) \o to_bytes(v.lo, 2, byteorder)

RECURSIVE Xor(_, _)
Xor(a, b) ==
    IF a = 0 THEN b
    ELSE IF b = 0 THEN a
    ELSE ((a + b) % 2) + 2 * Xor(a \div 2, b \div 2)

\* one bit of the reflected CRC-32C register: shift right, xor the Castagnoli
\* polynomial 0x82F63B78 when the bit shifted out is 1
CrcShift(v) ==
    LET hi == v.hi \div 2
        lo == (v.lo \div 2) + (v.hi % 2) * 32768
    IN  IF v.lo % 2 = 1 THEN [hi |-> Xor(hi, 33526), lo |-> Xor(lo, 15224)]
        ELSE [hi |-> hi, lo |-> lo]

RECURSIVE CrcShifts(_, _)
CrcShifts(v, n) == IF n = 0 THEN v ELSE CrcShifts(CrcShift(v), n - 1)

RECURSIVE CrcUpdate(_, _)
CrcUpdate(v, data) ==
    IF data = <<>> THEN v
    ELSE CrcUpdate(CrcShifts([hi |-> v.hi, lo |-> Xor(v.lo, data[1])], 8),
                   Tail(data))

\* crc32c.crc32c(file.read())
calculate_crc32c(data) ==
    LET v == CrcUpdate([hi |-> 65535, lo |-> 65535], data)
    IN  [hi |-> Xor(v.hi, 65535), lo |-> Xor(v.lo, 65535)]

\* os.path.getsize
get_length(data) == Len(data)

RECURSIVE SumBytes(_)
SumBytes(s) == IF s = <<>> THEN 0 ELSE s[1] + SumBytes(Tail(s))

\* hmac.new(key, image, sha256).digest(): the library digest is stood in for by
\* a deterministic function of key and image; what is kept of it is that it
\* is DigestSize bytes long, whatever the platform's hmac_signature_size is.
calculate_hmac_signature(image, key) ==
    [j \in 1..DigestSize |->
        (37 * j + 11 * SumBytes(image) + 5 * SumBytes(key)
            + 3 * Len(image) + Len(key) + 1) % 256]

\* ImageMetadata() with the fields extract_image_metadata sets
extract_image_metadata(image, key, file_name) ==
    [crc |-> calculate_crc32c(image),
     completion_status |-> 1,
     hmac_signature |-> calculate_hmac_signature(image, key),
     length |-> get_length(image),
     file_name |-> file_name]

\* a write that cuts the file off behind the written bytes (dd without
\* conv=notrunc, a file opened "wb")
WriteTruncatesAtOffset(file, offset, data) ==
    [i \in 1..(offset + Len(data)) |->
        IF i > offset THEN data[i - offset]
        ELSE IF i <= Len(file) THEN file[i]
        ELSE 0]

\* The write primitive of dd conv=notrunc seek=offset and of seek + write on a
\* file opened rb+: data replaces the bytes at [offset, offset + len), a gap
\* past the old end reads as zeros, nothing else changes; an empty write
\* leaves the file as it is.
WriteAt(file, offset, data) ==
    IF data = <<>> THEN file
    ELSE [i \in 1..Max(Len(file), offset + Len(data)) |->
            IF i > offset /\ i <= offset + Len(data) THEN data[i - offset]
            ELSE IF i <= Len(file) THEN file[i]
            ELSE 0]

\* the check written as >=
SizeCheckRejectsExactFit(length, limit) == length >= limit

\* the size checks of create_output_binary and append_images_to_binary
TooBig(length, limit) == length > limit

\* --------------------------------------------------------------- inputs

\* platform descriptions given to the layout generator alone
LayoutPlatforms ==
    [name : {"board"},
     number_of_images : 0..MaxSlots,
     bootloader_size : {0, 24, 4096},
     max_image_size : {0, 2, 32768},
     metadata_label_address : {0, 64, 848},
     pointer_size : {4, 8},
     size_t_size : {4, 8},
     hmac_key_size : {0, 2, 32},
     hmac_signature_size : {16, 32, 48},
     byteorder : {"little", "big"}]

\* platform descriptions of the builds: the metadata region lies inside the
\* bootloader and the first slot (label 0) or behind the image storage (64)
BuildPlatforms ==
    [name : {"board"},
     number_of_images : 1..MaxSlots,
     bootloader_size : {24},
     max_image_size : {2},
     metadata_label_address : {0, 64},
     pointer_size : {4, 8},
     size_t_size : {4},
     hmac_key_size : {2},
     hmac_signature_size : {16, 32},
     byteorder : {"little", "big"}]

\* file contents: every file has its own byte values
BootloaderFile(n) == [j \in 1..n |-> 176 + (j % 16)]
ImageFile(i, n) == [j \in 1..n |-> 16 * i + (j % 16)]
KeyFile(n) == [j \in 1..n |-> 192 + (j % 16)]
OldOutput(n) == [j \in 1..n |-> 238]

\* the images of a build: one to MaxImages files around the slot size
ImageLists(p) ==
    UNION { [1..k -> {p.max_image_size - 1, p.max_image_size, p.max_image_size + 1}]
            : k \in 1..MaxImages }

BuildInputs(p) ==
    { [bootloader |-> BootloaderFile(b),
       images |-> [i \in DOMAIN lens |-> ImageFile(i, lens[i])],
       key |-> KeyFile(k),
       old |-> OldOutput(o)] :
        b \in {p.bootloader_size - 1, p.bootloader_size, p.bootloader_size + 1},
        lens \in ImageLists(p),
        k \in {p.hmac_key_size, 3 * p.hmac_key_size + 6},
        o \in {0, 30} }

NoInputs == [bootloader |-> <<>>, images |-> <<>>, key |-> <<>>, old |-> <<>>]

\* GlobalImageMetadata()
NewGlobalImageMetadata == [hmac_key_file |-> <<>>, images |-> <<>>]

\* ---------------------------------------------------------------- control

\* fix_metadata with write_hmac_key moved behind its loop
FixMetadataWritesKeyLast(stage) ==
    CASE stage = "extract" -> "bootloader"
      [] stage = "bootloader" -> "images"
      [] stage = "images" -> "crc"
      [] stage = "crc" -> "length"
      [] stage = "length" -> "completion_status"
      [] stage = "completion_status" -> "hmac_signature"
      [] stage = "hmac_signature" -> "key"
      [] stage = "key" -> "done"

\* statement order of __main__ and of fix_metadata: the stage entered when
\* `stage` (with its loop, if it is one) is through
Following(stage) ==
    CASE stage = "extract" -> "bootloader"
      [] stage = "bootloader" -> "images"
      [] stage = "images" -> "key"
      [] stage = "key" -> "crc"
      [] stage = "crc" -> "length"
      [] stage = "length" -> "completion_status"
      [] stage = "completion_status" -> "hmac_signature"
      [] stage = "hmac_signature" -> "done"

Written(op, slot, offset, data) ==
    [op |-> op, slot |-> slot, offset |-> offset, length |-> Len(data)]

\* the oversize is reported and the build goes on
OversizeOnlyWarns(e) ==
    /\ pc' = Following(pc)
    /\ err' = e
    /\ UNCHANGED <<out, log, index>>

\* raise Exception(...): nothing catches it, the run ends
Raise(e) ==
    /\ pc' = "error"
    /\ err' = e
    /\ UNCHANGED <<out, log, index>>

\* per-slot offset of a field: first offset + size_of_metadata * index
SlotOffset(first, i) == first + config.size_of_metadata * i

\* ------------------------------------------------------------------ Init

InitCommon ==
    /\ config = <<>>
    /\ global_metadata = NewGlobalImageMetadata
    /\ pc = "gen_addresses"
    /\ index = 0
    /\ err = ""
    /\ log = <<>>

InitLayout ==
    /\ platform \in LayoutPlatforms
    /\ inputs = NoInputs
    /\ out = <<>>
    /\ InitCommon

Init ==
    /\ platform \in BuildPlatforms
    /\ inputs \in BuildInputs(platform)
    /\ out = inputs.old
    /\ InitCommon

\* ------------------------------------------- actions: generate_config

GenerateImageBeginAddresses ==
    /\ pc = "gen_addresses"
    /\ config' = [name |-> platform.name,
                  image_begin_addresses |-> generate_image_begin_addresses(platform)]
    /\ pc' = "gen_size"
    /\ UNCHANGED <<platform, inputs, global_metadata, out, index, err, log>>

GenerateSizeOfMetadata ==
    /\ pc = "gen_size"
    /\ config' = Update(config, [size_of_metadata |-> size_of_metadata(platform)])
    /\ pc' = "gen_offsets"
    /\ UNCHANGED <<platform, inputs, global_metadata, out, index, err, log>>

GenerateOffsets ==
    /\ pc = "gen_offsets"
    /\ config' = Update(config, generate_offsets(platform))
    /\ pc' = "gen_copy"
    /\ UNCHANGED <<platform, inputs, global_metadata, out, index, err, log>>

\* copy the required fields; save_config
CopyRequiredFields ==
    /\ pc = "gen_copy"
    /\ config' = Update(config, [bootloader_size |-> platform.bootloader_size,
                                 byteorder |-> platform.byteorder,
                                 max_image_size |-> platform.max_image_size])
    /\ pc' = "saved"
    /\ UNCHANGED <<platform, inputs, global_metadata, out, index, err, log>>

NextLayout ==
    \/ GenerateImageBeginAddresses
    \/ GenerateSizeOfMetadata
    \/ GenerateOffsets
    \/ CopyRequiredFields

\* ------------------------------------------- actions: initial_metadata

\* yaml.load of the saved config; GlobalImageMetadata()
LoadConfiguration ==
    /\ pc = "saved"
    /\ inputs.images # <<>>
    /\ global_metadata' = NewGlobalImageMetadata
    /\ index' = 0
    /\ pc' = "extract"
    /\ UNCHANGED <<platform, config, inputs, out, err, log>>

\* one iteration of: for image_file_name in args.images: extract_image_metadata
ExtractImageMetadata ==
    /\ pc = "extract"
    /\ global_metadata' =
         [hmac_key_file |-> inputs.key,
          images |-> Append(global_metadata.images,
                            extract_image_metadata(inputs.images[index + 1],
                                                   inputs.key, index))]
    /\ IF index + 1 < Len(inputs.images)
       THEN index' = index + 1 /\ pc' = pc
       ELSE index' = 0 /\ pc' = Following("extract")
    /\ UNCHANGED <<platform, config, inputs, out, err, log>>

CreateOutputBinary ==
    /\ pc = "bootloader"
    /\ LET length == get_length(inputs.bootloader)
       IN  IF TooBig(length, config.bootloader_size)
           THEN Raise("SizeExceeded")
           ELSE /\ out' = WriteAt(out, 0, inputs.bootloader)
                /\ log' = Append(log, Written("bootloader", 0, 0, inputs.bootloader))
                /\ index' = 0
                /\ pc' = Following("bootloader")
                /\ err' = err
    /\ UNCHANGED <<platform, config, inputs, global_metadata>>

\* one iteration of the loop of append_images_to_binary
AppendImageToBinary ==
    /\ pc = "images"
    /\ LET image == inputs.images[index + 1]
           length == get_length(image)
       IN  IF TooBig(length, config.max_image_size)
           THEN Raise("SizeExceeded")
           ELSE IF index + 1 > Len(config.image_begin_addresses)
           THEN Raise("IndexError")
           ELSE LET offset == config.image_begin_addresses[index + 1]
                IN  /\ out' = WriteAt(out, offset, image)
                    /\ log' = Append(log, Written("image", index, offset, image))
                    /\ IF index + 1 < Len(inputs.images)
                       THEN index' = index + 1 /\ pc' = pc
                       ELSE index' = 0 /\ pc' = Following("images")
                    /\ err' = err
    /\ UNCHANGED <<platform, config, inputs, global_metadata>>

WriteHmacKey ==
    /\ pc = "key"
    /\ out' = WriteAt(out, config.hmac_key_offset, global_metadata.hmac_key_file)
    /\ log' = Append(log, Written("key", 0, config.hmac_key_offset,
                                  global_metadata.hmac_key_file))
    /\ pc' = Following("key")
    /\ UNCHANGED <<platform, config, inputs, global_metadata, index, err>>

WriteCrc ==
    /\ pc = "crc"
    /\ LET image == global_metadata.images[index + 1]
           offset == SlotOffset(config.first_crc_offset, index)
           data == u32_to_bytes(image.crc, config.byteorder)
       IN  /\ out' = WriteAt(out, offset, data)
           /\ log' = Append(log, Written("crc", index, offset, data))
    /\ pc' = Following("crc")
    /\ UNCHANGED <<platform, config, inputs, global_metadata, index, err>>

WriteLength ==
    /\ pc = "length"
    /\ LET image == global_metadata.images[index + 1]
           offset == SlotOffset(config.first_length_offset, index)
           data == u32_to_bytes(U32(image.length), config.byteorder)
       IN  /\ out' = WriteAt(out, offset, data)
           /\ log' = Append(log, Written("length", index, offset, data))
    /\ pc' = Following("length")
    /\ UNCHANGED <<platform, config, inputs, global_metadata, index, err>>

WriteCompletionStatus ==
    /\ pc = "completion_status"
    /\ LET image == global_metadata.images[index + 1]
           offset == SlotOffset(config.first_completion_status_offset, index)
           data == to_bytes(image.completion_status, 2, config.byteorder)
       IN  /\ out' = WriteAt(out, offset, data)
           /\ log' = Append(log, Written("completion_status", index, offset, data))
    /\ pc' = Following("completion_status")
    /\ UNCHANGED <<platform, config, inputs, global_metadata, index, err>>

\* the last write of a slot: the loop of fix_metadata goes round or ends
WriteHmacSignature ==
    /\ pc = "hmac_signature"
    /\ LET image == global_metadata.images[index + 1]
           offset == SlotOffset(config.first_hmac_offset, index)
           data == image.hmac_signature
       IN  /\ out' = WriteAt(out, offset, data)
           /\ log' = Append(log, Written("hmac_signature", index, offset, data))
    /\ IF index + 1 < Len(global_metadata.images)
       THEN index' = index + 1 /\ pc' = "crc"
       ELSE index' = 0 /\ pc' = Following("hmac_signature")
    /\ UNCHANGED <<platform, config, inputs, global_metadata, err>>

NextBuild ==
    \/ LoadConfiguration
    \/ ExtractImageMetadata
    \/ CreateOutputBinary
    \/ AppendImageToBinary
    \/ WriteHmacKey
    \/ WriteCrc
    \/ WriteLength
    \/ WriteCompletionStatus
    \/ WriteHmacSignature

Next == NextLayout \/ NextBuild

\* the layout generator alone, over the wide set of platform descriptions
LayoutSpec == InitLayout /\ [][NextLayout]_vars

\* generator, then one build with the generated config
Spec == Init /\ [][Next]_vars

\* ---------------------------------------------------------------- claims

Succeeded == pc = "done"

Records == global_metadata.images

\* byte range [offset, offset + length) of a logged write, as file offsets
Covers(e, o) == e.offset <= o /\ o < e.offset + e.length

MetadataOps == {"crc", "length", "completion_status", "hmac_signature"}

\* C2: generate_image_begin_addresses yields exactly number_of_images entries,
\* entry i being bootloader_size + i * max_image_size.
ImageBeginAddressesFormula ==
    "image_begin_addresses" \in DOMAIN config =>
        /\ Len(config.image_begin_addresses) = platform.number_of_images
        /\ \A i \in 0..(platform.number_of_images - 1) :
              config.image_begin_addresses[i + 1]
                  = platform.bootloader_size + i * platform.max_image_size

\* the spec's example: 0x1000, 0x8000, two images -> [0x1000, 0x9000]
ImageBeginAddressesWitness ==
    /\ pc = "saved"
    /\ platform.bootloader_size = 4096
    /\ platform.max_image_size = 32768
    /\ config.image_begin_addresses = <<4096, 36864>>

\* C8: size_of_metadata is the sum of the nine per-image field widths,
\* 4+4+4+4+pointer_size+4+2+2+hmac_signature_size, whatever size_t_size,
\* hmac_key_size and number_of_images are.
SizeOfMetadataIsSumOfWidths ==
    "size_of_metadata" \in DOMAIN config =>
        config.size_of_metadata
            = 4 + 4 + 4 + 4 + platform.pointer_size + 4 + 2 + 2
                + platform.hmac_signature_size

\* the spec's example: pointer_size 4, signature 32 -> 60
SizeOfMetadataWitness ==
    /\ pc = "saved"
    /\ platform.pointer_size = 4
    /\ platform.hmac_key_size = 32
    /\ platform.hmac_signature_size = 32
    /\ config.size_of_metadata = 60

\* the fields in declared order, global order first, with their widths
DeclaredFields ==
    generate_global_metadata_sizes(platform) \o generate_size_of_metadata(platform)

Resolved(k) == OffsetOf(DeclaredFields[k].key, platform)

\* C7 as stated: the offsets resolved by get_offset_of are strictly increasing
\* in declared field order, and hmac_key_offset < first_image_metadata_offset
\* < first_crc_offset < first_length_offset < first_completion_status_offset
\* < first_hmac_offset.
OffsetsStrictlyIncreasing ==
    pc = "saved" =>
        /\ \A k \in 1..(Len(DeclaredFields) - 1) : Resolved(k) < Resolved(k + 1)
        /\ config.hmac_key_offset < config.first_image_metadata_offset
        /\ config.first_image_metadata_offset < config.first_crc_offset
        /\ config.first_crc_offset < config.first_length_offset
        /\ config.first_length_offset < config.first_completion_status_offset
        /\ config.first_completion_status_offset < config.first_hmac_offset

\* C7 amended: the offsets never decrease in declared order and increase
\* strictly from every field of positive width to the next one (the zero-width
\* sentinel imageMetadata resolves to the offset of version); the chain from
\* first_image_metadata_offset to first_hmac_offset is strict in every
\* layout, and hmac_key_offset < first_image_metadata_offset when
\* hmac_key_size > 0.
OffsetsIncreaseByWidth ==
    pc = "saved" =>
        /\ \A k \in 1..(Len(DeclaredFields) - 1) :
              /\ Resolved(k) <= Resolved(k + 1)
              /\ DeclaredFields[k].value > 0 => Resolved(k) < Resolved(k + 1)
        /\ OffsetOf("imageMetadata", platform) = OffsetOf("version", platform)
        /\ config.hmac_key_offset <= config.first_image_metadata_offset
        /\ platform.hmac_key_size > 0 =>
              config.hmac_key_offset < config.first_image_metadata_offset
        /\ config.first_image_metadata_offset < config.first_crc_offset
        /\ config.first_crc_offset < config.first_length_offset
        /\ config.first_length_offset < config.first_completion_status_offset
        /\ config.first_completion_status_offset < config.first_hmac_offset

OffsetsWitness ==
    /\ pc = "saved"
    /\ platform.metadata_label_address = 848
    /\ platform.hmac_key_size = 32
    /\ platform.size_t_size = 4
    /\ config.hmac_key_offset = 860
    /\ config.first_image_metadata_offset = 956
    /\ config.first_crc_offset = 960

\* ---- the reader of the finished binary: seek, read, int.from_bytes

\* file.seek(offset); file.read(n)
ReadAt(file, offset, n) ==
    SubSeq(file, offset + 1, IF offset + n <= Len(file) THEN offset + n ELSE Len(file))

RECURSIVE FromLittleEndian(_)
FromLittleEndian(b) ==
    IF b = <<>> THEN 0 ELSE b[1] + 256 * FromLittleEndian(Tail(b))

from_bytes(b, byteorder) ==
    IF byteorder = "little" THEN FromLittleEndian(b)
    ELSE FromLittleEndian(Reverse(b))

u32_from_bytes(b, byteorder) ==
    IF byteorder = "little"
    THEN [hi |-> from_bytes(SubSeq(b, 3, 4), byteorder),
          lo |-> from_bytes(SubSeq(b, 1, 2), byteorder)]
    ELSE [hi |-> from_bytes(SubSeq(b, 1, 2), byteorder),
          lo |-> from_bytes(SubSeq(b, 3, 4), byteorder)]

\* what a reader of the output finds in slot i's record (i from 0)
ReadCrc(i) ==
    u32_from_bytes(ReadAt(out, config.first_crc_offset + i * config.size_of_metadata, 4),
                   config.byteorder)

ReadLength(i) ==
    u32_from_bytes(ReadAt(out, config.first_length_offset + i * config.size_of_metadata, 4),
                   config.byteorder)

ReadCompletionStatus(i) ==
    from_bytes(ReadAt(out, config.first_completion_status_offset
                              + i * config.size_of_metadata, 2),
               config.byteorder)

ReadHmacSignature(i) ==
    ReadAt(out, config.first_hmac_offset + i * config.size_of_metadata,
           Len(Records[i + 1].hmac_signature))

\* C1: after a successful composition the crc, length, completion status and
\* signature read back from every slot's computed offsets are the values
\* extract_image_metadata produced for that image.
MetadataRoundTrip ==
    Succeeded =>
        \A i \in 0..(Len(Records) - 1) :
            /\ ReadCrc(i) = Records[i + 1].crc
            /\ ReadLength(i) = U32(Records[i + 1].length)
            /\ ReadCompletionStatus(i) = Records[i + 1].completion_status
            /\ ReadHmacSignature(i) = Records[i + 1].hmac_signature

RecordBegin(i) == config.first_image_metadata_offset + i * config.size_of_metadata

\* C9: every per-image metadata write of slot i stays inside the slot's own
\* record [first_image_metadata_offset + i * size_of_metadata, ... + (i + 1) *
\* size_of_metadata), the ranges written are pairwise disjoint, and the
\* signature written is hmac_signature_size bytes long.
MetadataWritesStayInRecord ==
    /\ \A k \in DOMAIN log :
          log[k].op \in MetadataOps =>
              /\ RecordBegin(log[k].slot) <= log[k].offset
              /\ log[k].offset + log[k].length <= RecordBegin(log[k].slot + 1)
              /\ log[k].op = "hmac_signature" =>
                    log[k].length = platform.hmac_signature_size
    /\ \A k, l \in DOMAIN log :
          k < l /\ log[k].op \in MetadataOps /\ log[l].op \in MetadataOps =>
              \/ log[k].offset + log[k].length <= log[l].offset
              \/ log[l].offset + log[l].length <= log[k].offset

\* C3: the size checks are length > limit: the bootloader placement raises
\* exactly when the bootloader is longer than bootloader_size, the placement
\* of a slot's image raises the size error exactly when the image is longer
\* than max_image_size; a file of exactly the limit is placed.
SizeLimitsAtExactBoundary ==
    [][ /\ pc = "bootloader" =>
              /\ pc' = "error" <=> Len(inputs.bootloader) > platform.bootloader_size
              /\ pc' # "error" =>
                    ReadAt(out', 0, Len(inputs.bootloader)) = inputs.bootloader
        /\ pc = "images" /\ index < platform.number_of_images =>
              /\ (pc' = "error" /\ err' = "SizeExceeded")
                    <=> Len(inputs.images[index + 1]) > platform.max_image_size
              /\ pc' = "error"
                    <=> Len(inputs.images[index + 1]) > platform.max_image_size
              /\ pc' # "error" =>
                    /\ Len(log') = Len(log) + 1
                    /\ log'[Len(log')].op = "image"
                    /\ log'[Len(log')].length = Len(inputs.images[index + 1])
      ]_vars

\* a bootloader of bootloader_size bytes and an image of max_image_size bytes
\* have been placed
SizeLimitsWitness ==
    /\ Len(log) >= 2
    /\ log[1].op = "bootloader"
    /\ log[1].length = platform.bootloader_size
    /\ log[Len(log)].op = "image"
    /\ log[Len(log)].slot = 1
    /\ log[Len(log)].length = platform.max_image_size

\* place of a write in the fixed order of a build with n images; the four
\* writes of one slot's record share a place
Rank(e, n) ==
    CASE e.op = "bootloader" -> 0
      [] e.op = "image" -> 1 + e.slot
      [] e.op = "key" -> 1 + n
      [] e.op \in MetadataOps -> 2 + n + e.slot

\* C4: the writes to the output occur in one fixed order: bootloader, images
\* by increasing slot, the key once, then the metadata by increasing slot; no
\* key or metadata write before the last image is placed, no image before the
\* bootloader.
WritesInFixedOrder ==
    LET n == Len(inputs.images)
    IN  /\ \A k, l \in DOMAIN log :
              k < l =>
                  /\ Rank(log[k], n) <= Rank(log[l], n)
                  /\ log[k].op = log[l].op => log[k].slot < log[l].slot
        /\ \A l \in DOMAIN log :
              log[l].op \in MetadataOps \cup {"key"} =>
                  \A i \in 0..(n - 1) :
                      \E k \in 1..(l - 1) : log[k].op = "image" /\ log[k].slot = i
        /\ \A l \in DOMAIN log :
              log[l].op # "bootloader" => log[1].op = "bootloader"
        /\ Succeeded => Len(log) = 2 + 5 * n

WritesInFixedOrderWitness ==
    /\ Succeeded
    /\ Len(inputs.images) = 2
    /\ log[4].op = "key"
    /\ log[Len(log)].op = "hmac_signature"
    /\ log[Len(log)].slot = 1

BootloaderOversized == Len(inputs.bootloader) > platform.bootloader_size

ImageOversized(k) == Len(inputs.images[k + 1]) > platform.max_image_size

\* slot k holds the first oversized image of a build whose bootloader fits
FirstOversized(k) ==
    /\ ~BootloaderOversized
    /\ k < Len(inputs.images)
    /\ k < platform.number_of_images
    /\ ImageOversized(k)
    /\ \A j \in 0..(k - 1) : ~ImageOversized(j)

AfterImages == {"key", "crc", "length", "completion_status", "hmac_signature", "done"}

\* C5: a size error aborts the composition at once: with an oversized
\* bootloader no byte of the output is ever written; with the image of slot k
\* oversized the bootloader and the images of the slots below k are written,
\* and no image of a slot >= k, no key and no metadata ever is; the run ends
\* in the error state, which nothing leaves.
SizeErrorAborts ==
    /\ [](BootloaderOversized =>
            /\ log = <<>>
            /\ out = inputs.old
            /\ pc \notin AfterImages \cup {"images"})
    /\ [](\A k \in 0..(MaxImages - 1) :
            FirstOversized(k) =>
                /\ \A l \in DOMAIN log :
                      /\ log[l].op \in {"bootloader", "image"}
                      /\ log[l].op = "image" => log[l].slot < k
                /\ pc \notin AfterImages
                /\ pc = "error" =>
                      /\ err = "SizeExceeded"
                      /\ Len(log) = 1 + k
                      /\ ReadAt(out, 0, Len(inputs.bootloader)) = inputs.bootloader
                      /\ \A j \in 0..(k - 1) :
                            ReadAt(out, config.image_begin_addresses[j + 1],
                                   Len(inputs.images[j + 1])) = inputs.images[j + 1])
    /\ [][ /\ pc # "error"
           /\ pc = "bootloader" /\ BootloaderOversized => pc' = "error"
           /\ pc = "images" /\ FirstOversized(index) => pc' = "error"
         ]_vars

\* the second image is the oversized one: the run is in the error state with
\* the bootloader and the first image written
SizeErrorAbortsWitness ==
    /\ pc = "error"
    /\ err = "SizeExceeded"
    /\ FirstOversized(1)
    /\ Len(log) = 2
    /\ log[2].op = "image"

\* C6: the placement of slot i's image sets the bytes [image_begin_addresses[i],
\* image_begin_addresses[i] + length) to the image and leaves every other
\* byte of the output as it was (bytes the file gains before the range are
\* zeros), so the placed bootloader and the images of the other slots stay
\* intact.
ImagePlacementFrame ==
    [][ pc = "images" /\ pc' # "error" =>
          LET image == inputs.images[index + 1]
              begin == config.image_begin_addresses[index + 1]
              Inside(o) == begin <= o /\ o < begin + Len(image)
          IN  /\ Len(out') >= Len(out)
              /\ Len(out') >= begin + Len(image) \/ image = <<>>
              /\ \A o \in 0..(Len(out') - 1) :
                    out'[o + 1] = IF Inside(o) THEN image[o - begin + 1]
                                  ELSE IF o < Len(out) THEN out[o + 1]
                                  ELSE 0
              /\ ReadAt(out', 0, Len(inputs.bootloader)) = inputs.bootloader
              /\ \A j \in 0..(index - 1) :
                    ReadAt(out', config.image_begin_addresses[j + 1],
                           Len(inputs.images[j + 1])) = inputs.images[j + 1]
      ]_vars

\* the second slot's image has been placed in an output file that held older
\* bytes behind it
ImagePlacementWitness ==
    /\ Len(log) = 3
    /\ log[3].op = "image"
    /\ log[3].slot = 1
    /\ log[3].length = platform.max_image_size
    /\ log[2].length = platform.max_image_size
    /\ inputs.old # <<>>
    /\ Len(out) > log[3].offset + log[3].length
    /\ out[Len(out)] = 238

BootloaderIntact == ReadAt(out, 0, Len(inputs.bootloader)) = inputs.bootloader

ImageIntact(i) ==
    ReadAt(out, config.image_begin_addresses[i + 1], Len(inputs.images[i + 1]))
        = inputs.images[i + 1]

\* C10 as stated: after a successful composition the bootloader bytes and
\* every placed image's bytes are intact: no key or metadata write overwrites
\* a byte of the bootloader or of an image slot.
PayloadsIntact ==
    Succeeded =>
        /\ BootloaderIntact
        /\ \A i \in 0..(Len(inputs.images) - 1) : ImageIntact(i)

\* offset o was written by the key write or a metadata write
Patched(o) ==
    \E k \in DOMAIN log :
        log[k].op \in MetadataOps \cup {"key"} /\ Covers(log[k], o)

\* C10 amended: after a successful composition every byte of the bootloader
\* and of every placed image that lies outside the ranges written by the key
\* write and the metadata writes is intact; the payloads are intact as a whole
\* when those ranges miss them, which the platform's metadata_label_address
\* decides.
PayloadsIntactOutsideMetadata ==
    Succeeded =>
        /\ \A o \in 0..(Len(inputs.bootloader) - 1) :
              ~Patched(o) => out[o + 1] = inputs.bootloader[o + 1]
        /\ \A i \in 0..(Len(inputs.images) - 1) :
              \A o \in 0..(Len(inputs.images[i + 1]) - 1) :
                  ~Patched(config.image_begin_addresses[i + 1] + o) =>
                      out[config.image_begin_addresses[i + 1] + o + 1]
                          = inputs.images[i + 1][o + 1]
        /\ (\A k \in DOMAIN log :
                log[k].op \in MetadataOps \cup {"key"} =>
                    log[k].offset >= config.image_begin_addresses[Len(inputs.images)]
                                        + Len(inputs.images[Len(inputs.images)]))
              => /\ BootloaderIntact
                 /\ \A i \in 0..(Len(inputs.images) - 1) : ImageIntact(i)

\* two images placed, the metadata region behind the image storage, all
\* payloads intact in the finished output
PayloadsIntactWitness ==
    /\ Succeeded
    /\ Len(inputs.images) = 2
    /\ platform.metadata_label_address = 64
    /\ Len(inputs.bootloader) = platform.bootloader_size
    /\ BootloaderIntact
    /\ ImageIntact(0)
    /\ ImageIntact(1)
    /\ ~Patched(0)
    /\ Patched(config.first_crc_offset)

====
